---- MODULE Spec2Model ----
(***************************************************************************)
(* Model of the yt-dlp HTTP service in src/main.py: the credential check,  *)
(* the filename identity generator, the two-pass download handler, the     *)
(* file resolution handler and the directory listing.                      *)
(*                                                                         *)
(* Strings are sequences of atoms.  An atom is one character ("a", ".",    *)
(* " ", "/"), or an indivisible run of characters that contains no "."     *)
(* and no whitespace ("mp3", "wav", a word of a message).                  *)
(***************************************************************************)
EXTENDS Integers, Sequences, FiniteSets, TLC

VARIABLES
    cookies,    \* COOKIES_CONTENT, read once from the environment
    now,        \* index of the current calendar date in Dates
    dirExists,  \* whether DOWNLOADS_DIR exists
    files,      \* the storage directory: file name -> content
    req,        \* the in-flight requests to /download/audio and /info
    served,     \* the last response of GET /download/{filename}
    listing,    \* the last response of GET /downloads
    health,     \* the last response of GET /health
    title,      \* argument of the direct calls of create_safe_filename
    stamp,      \* the clock readings of those calls, in order
    uuid,       \* the random identifiers those calls drew, in order
    ident,      \* the values those calls returned, in order
    query       \* the name requested from GET /download/{filename}

vars == <<cookies, now, dirExists, files, req, served, listing, health,
          title, stamp, uuid, ident, query>>

None == "None"

----------------------------------------------------------------------------
(* Bounds *)

\* longest title handed to create_safe_filename in SpecName
MaxLen == 3
\* longest requested name (in atoms) in SpecResolve
MaxName == 6
\* number of requests the service handles in Spec
NReq == 2

----------------------------------------------------------------------------
(* Strings *)

Rep(c, n) == [i \in 1..n |-> c]

SeqsUpTo(S, n) == UNION {[1..k -> S] : k \in 0..n}

\* s[i..] starts with p
StartsAt(s, i, p) ==
    /\ i + Len(p) - 1 <= Len(s)
    /\ \A k \in 1..Len(p) : s[i + k - 1] = p[k]

\* Python's `p in s`
Contains(s, p) == \E i \in 1..(Len(s) + 1) : StartsAt(s, i, p)

EndsWith(s, p) == Len(p) <= Len(s) /\ StartsAt(s, Len(s) - Len(p) + 1, p)

\* Python's s.replace(p, r): non-overlapping occurrences, left to right
RECURSIVE Replace(_, _, _)
Replace(s, p, r) ==
    IF s = <<>> THEN <<>>
    ELSE IF StartsAt(s, 1, p)
         THEN r \o Replace(SubSeq(s, Len(p) + 1, Len(s)), p, r)
         ELSE <<Head(s)>> \o Replace(Tail(s), p, r)

\* Python's s.split('.')[-1]: the text after the last ".", all of s without one
LastPart(s) ==
    LET dots == {i \in 1..Len(s) : s[i] = "."}
        last == IF dots = {} THEN 0
                ELSE CHOOSE i \in dots : \A j \in dots : j <= i
    IN  SubSeq(s, last + 1, Len(s))

DigitChars == <<"0", "1", "2", "3", "4", "5", "6", "7", "8", "9">>
Digits == {DigitChars[i] : i \in 1..10}
HexChars == Digits \cup {"a", "b", "c", "d", "e", "f"}

RECURSIVE Pow10(_)
Pow10(k) == IF k = 0 THEN 1 ELSE 10 * Pow10(k - 1)

\* n printed in decimal, zero-padded to w digits
Pad(n, w) == [i \in 1..w |-> DigitChars[((n \div Pow10(w - i)) % 10) + 1]]

----------------------------------------------------------------------------
(* create_safe_filename *)

\* the characters re's \w matches, as far as titles are drawn from them
WordChars == {"a", "1", "_"}
\* the characters re's \s matches: space, tab, and the control character
\* U+001C (written FS), which Python counts as whitespace
SpaceChars == {" ", "\t", "FS"}
\* characters outside [\w\s-]: separators, the dot, a control character (SOH)
SpecialChars == {"/", "\\", ".", "SOH"}
TitleChars == WordChars \cup SpaceChars \cup SpecialChars \cup {"-"}

\* re.sub(r'[^\w\s-]', '', title)
RemoveSpecialKeepsDot(t) ==
    SelectSeq(t, LAMBDA c : c \in WordChars \cup SpaceChars \cup {"-", "."})
RemoveSpecial(t) ==
    SelectSeq(t, LAMBDA c : c \in WordChars \cup SpaceChars \cup {"-"})

\* re.sub(r'\s+', '-', s)
RECURSIVE DropSpaces(_)
DropSpaces(s) ==
    IF s # <<>> /\ Head(s) \in SpaceChars THEN DropSpaces(Tail(s)) ELSE s

RECURSIVE CollapseSpaces(_)
CollapseSpaces(s) ==
    IF s = <<>> THEN <<>>
    ELSE IF Head(s) \in SpaceChars
         THEN <<"-">> \o CollapseSpaces(DropSpaces(s))
         ELSE <<Head(s)>> \o CollapseSpaces(Tail(s))

\* the calendar dates the process-local clock passes through
Dates == << [year |-> 2024, month |-> 12, day |-> 31],
            [year |-> 2025, month |-> 1,  day |-> 1] >>

\* datetime.strftime('%Y%m%d')
Strftime(d) == Pad(d.year, 4) \o Pad(d.month, 2) \o Pad(d.day, 2)

\* str(uuid.uuid4()): 8-4-4-4-12 hexadecimal digits.  U1 and U2 differ, but
\* not in their first group
U1 == <<"d", "e", "a", "d", "b", "e", "e", "f">> \o <<"-">> \o Rep("0", 4)
      \o <<"-", "4">> \o Rep("0", 3) \o <<"-", "8">> \o Rep("0", 3)
      \o <<"-">> \o Rep("1", 12)
U2 == <<"d", "e", "a", "d", "b", "e", "e", "f">> \o <<"-">> \o Rep("0", 4)
      \o <<"-", "4">> \o Rep("0", 3) \o <<"-", "8">> \o Rep("0", 3)
      \o <<"-">> \o Rep("2", 12)
U3 == <<"0", "0", "c", "0", "f", "f", "e", "e">> \o <<"-">> \o Rep("0", 4)
      \o <<"-", "4">> \o Rep("0", 3) \o <<"-", "8">> \o Rep("0", 3)
      \o <<"-">> \o Rep("3", 12)
Uuids == {U1, U2, U3}

\* create_safe_filename(title), with the clock reading d and uuid4() = u
CreateNoSuffix(t, d, u) ==
    Strftime(d) \o <<"_">> \o CollapseSpaces(RemoveSpecial(t))
create_safe_filename(t, d, u) ==
    LET safe_title == CollapseSpaces(RemoveSpecial(t))
        timestamp  == Strftime(d)
        unique_id  == SubSeq(u, 1, 8)
    IN  timestamp \o <<"_">> \o safe_title \o <<"_">> \o unique_id

----------------------------------------------------------------------------
(* Exceptions, messages and the credential check *)

CookiesMsg == <<"YouTube", "cookies", "not", "configured.", "Please", "set",
                "YOUTUBE_COOKIES", "environment", "variable.">>
AgePhrase == <<"Sign", "in", "to", "confirm", "your", "age">>
AgeMsg == <<"Age-restricted", "video.", "Please", "check", "your", "cookies",
            "configuration.">>

\* what the extractor's DownloadError can say
ErrMsgs == { <<"ERROR:", "Video", "unavailable">>,
             <<"ERROR:", "Sign", "in", "to", "confirm", "your", "age", ".",
               "This", "video", "may", "be", "inappropriate">>,
             <<"ERROR:", "Sign", "in", "to", "confirm", "you", "are", "not",
               "a", "bot">> }

NoExc == [type |-> "none", status_code |-> 0, detail |-> <<>>]
HTTPException(code, d) ==
    [type |-> "HTTPException", status_code |-> code, detail |-> d]
DownloadError(m) == [type |-> "DownloadError", status_code |-> 0, detail |-> m]

\* str(e): the message of a DownloadError; "<status>: <detail>" of an
\* HTTPException, as its __str__ prints it
Str(e) ==
    IF e.type = "HTTPException"
    THEN Pad(e.status_code, 3) \o <<":">> \o e.detail
    ELSE e.detail

\* Python's `not COOKIES_CONTENT`
Falsy(c) == c = None \/ c = ""

\* verify_cookies(): the exception it raises, NoExc when it returns
VerifyOnlyNone(c) ==
    IF c = None THEN HTTPException(500, CookiesMsg) ELSE NoExc
verify_cookies(c) ==
    IF Falsy(c) THEN HTTPException(500, CookiesMsg) ELSE NoExc

\* get_yt_dlp_options(base_filename, format, quality): raises what
\* verify_cookies raises, else returns the options
get_yt_dlp_options(base, fmt, c) ==
    LET e == verify_cookies(c)
    IN  [exc     |-> e,
         outtmpl |-> base,
         audioformat |-> fmt,
         cookies |-> c]

\* the except clauses of download_audio
NoResp == [status |-> 0, detail |-> <<>>, title |-> <<>>,
           filename |-> <<>>, download_url |-> <<>>]
Fail(code, d) == [NoResp EXCEPT !.status = code, !.detail = d]

AudioErrorPassesThrough(e) == Fail(400, Str(e))
AudioError(e) ==
    IF e.type = "DownloadError"
    THEN IF Contains(Str(e), AgePhrase)
         THEN Fail(400, AgeMsg)
         ELSE Fail(400, Str(e))
    ELSE Fail(400, Str(e))

\* the except clause of get_video_info
InfoError(e) == Fail(400, Str(e))

----------------------------------------------------------------------------
(* The storage directory *)

Put(fs, n, c) == [x \in DOMAIN fs \cup {n} |-> IF x = n THEN c ELSE fs[x]]
Remove(fs, n) == [x \in DOMAIN fs \ {n} |-> fs[x]]
NoFiles == [x \in {} |-> <<>>]

\* os.path.getsize
Size(c) == Len(c)

\* the handling of a double extension at the end of download_audio:
\* the directory after it
NormalizeNever(fs, final, fmt) == fs
NormalizeOverwrites(fs, final, fmt) ==
    LET double == final \o <<".">> \o fmt
    IN  IF double \in DOMAIN fs
        THEN Put(Remove(fs, double), final, fs[double])
        ELSE fs
Normalize(fs, final, fmt) ==
    LET double == final \o <<".">> \o fmt
    IN  IF final \notin DOMAIN fs /\ double \in DOMAIN fs
        THEN Put(Remove(fs, double), final, fs[double])
        ELSE fs

\* get_file(filename)
PossiblePaths(filename) ==
    << filename,
       filename \o <<".">> \o LastPart(filename),
       Replace(filename, <<".", "mp3", ".", "mp3">>, <<".", "mp3">>) >>

NoServed == [status |-> 0, path |-> <<>>, filename |-> <<>>,
             media_type |-> "", content |-> <<>>, tried |-> <<>>]

GetFileExactOnly(filename, fs) ==
    IF filename \in DOMAIN fs
    THEN [NoServed EXCEPT !.status = 200, !.path = filename,
                          !.filename = filename, !.media_type = "audio/mpeg",
                          !.content = fs[filename]]
    ELSE [NoServed EXCEPT !.status = 404, !.tried = <<filename>>]
get_file(filename, fs) ==
    LET paths == PossiblePaths(filename)
        hits  == {i \in 1..Len(paths) : paths[i] \in DOMAIN fs}
    IN  IF hits = {}
        THEN [NoServed EXCEPT !.status = 404, !.tried = paths]
        ELSE LET first == CHOOSE i \in hits : \A j \in hits : i <= j
             IN  [NoServed EXCEPT
                    !.status = 200,
                    !.path = paths[first],
                    !.filename = Replace(filename, <<".", "mp3", ".", "mp3">>,
                                         <<".", "mp3">>),
                    !.media_type = "audio/mpeg",
                    !.content = fs[paths[first]]]

\* list_downloads(), os.listdir giving the names in the order `order`
NoListing == [status |-> 0, files |-> <<>>]
NoHealth == [status |-> "", timestamp |-> <<>>, cookies_configured |-> FALSE]
Entry(fs, n) == [filename |-> n, size |-> Size(fs[n]),
                 download_url |-> <<"/download/">> \o n]
ListWithoutExistsCheck(exists, fs, order) ==
    IF ~exists THEN [status |-> 500, files |-> <<>>]
    ELSE [status |-> 200,
          files |-> [i \in 1..Len(order) |-> Entry(fs, order[i])]]
list_downloads(exists, fs, order) ==
    IF ~exists THEN [status |-> 200, files |-> <<>>]
    ELSE [status |-> 200,
          files |-> [i \in 1..Len(order) |-> Entry(fs, order[i])]]

\* the orders os.listdir can give the names of S in
Orders(S) ==
    {o \in [1..Cardinality(S) -> S] : \A i, j \in 1..Cardinality(S) :
                                          o[i] = o[j] => i = j}

----------------------------------------------------------------------------
(* The external extractor *)

\* the title the remote source reports for the requested URL
RemoteTitle == <<"a", "/", " ", "\t", "b">>
Formats == {<<"mp3">>, <<"wav">>}

\* extract_info(url, download=False): raises DownloadError or returns the info
ProbeOutcomes ==
    {[exc |-> DownloadError(m), title |-> <<>>] : m \in ErrMsgs}
    \cup {[exc |-> NoExc, title |-> RemoteTitle]}

\* the bytes the download made for request r produces
Audio(r, fmt) == <<DigitChars[r + 1]>> \o fmt

\* extract_info(url, download=True) with outtmpl {base}.%(ext)s: what it
\* leaves in the directory fs.  It writes {base}.{fmt}, or {base}.{fmt}.{fmt}
\* when the transcoder appends its extension once more, or it keeps the
\* source container {base}.webm; a file of the same name is overwritten.
FetchOutcomes(r, base, fmt, fs) ==
    {[exc |-> NoExc, title |-> RemoteTitle, wrote |-> "single",
      fs |-> Put(fs, base \o <<".">> \o fmt, Audio(r, fmt))],
     [exc |-> NoExc, title |-> RemoteTitle, wrote |-> "double",
      fs |-> Put(fs, base \o <<".">> \o fmt \o <<".">> \o fmt, Audio(r, fmt))],
     [exc |-> NoExc, title |-> RemoteTitle, wrote |-> "other",
      fs |-> Put(fs, base \o <<".", "webm">>, Audio(r, <<"webm">>))]}
    \cup {[exc |-> DownloadError(m), title |-> <<>>, wrote |-> "", fs |-> fs]
          : m \in ErrMsgs}

----------------------------------------------------------------------------
(* The service *)

Reqs == 1..NReq

NoReq == [pc |-> "idle", kind |-> "", format |-> <<>>,
          title |-> <<>>, base |-> <<>>, final |-> <<>>, date |-> 0,
          unique_id |-> <<>>, calls |-> 0, wrote |-> "", exc |-> NoExc,
          resp |-> NoResp]

\* The requests of Spec fall on one calendar date; SpecName follows
\* create_safe_filename across midnight.
Init ==
    /\ cookies \in {None, "", "SID=abc"}
    /\ now = 1
    /\ dirExists \in BOOLEAN
    /\ files = NoFiles
    /\ req = [r \in Reqs |-> NoReq]
    /\ served = NoServed
    /\ listing = NoListing
    /\ health = NoHealth
    /\ title = <<>>
    /\ stamp = <<>>
    /\ uuid = <<>>
    /\ ident = <<>>
    /\ query = <<>>

pureVars == <<title, stamp, uuid, ident>>

\* A response is read by its client before the service takes its next step:
\* responses do not act on the service.  Of a finished request the model keeps
\* what the client keeps: the answer to a successful download, whose
\* download_url it may ask for later.
Closed == [NoReq EXCEPT !.pc = "done"]
Settle(q) ==
    IF q.pc = "done" /\ ~(q.kind = "audio" /\ q.resp.status = 200)
    THEN Closed ELSE q

Quiet ==
    /\ served = NoServed
    /\ listing = NoListing
    /\ health = NoHealth
    /\ \A r \in Reqs : Settle(req[r]) = req[r]

Deliver ==
    /\ ~Quiet
    /\ served' = NoServed
    /\ listing' = NoListing
    /\ health' = NoHealth
    /\ query' = <<>>
    /\ req' = [r \in Reqs |-> Settle(req[r])]
    /\ UNCHANGED <<cookies, now, dirExists, files, pureVars>>

getVars == <<served, listing, health, query>>

\* requests are numbered in the order the service starts handling them
Arrives(r) ==
    /\ Quiet
    /\ req[r].pc = "idle"
    /\ \A q \in Reqs : q < r => req[q].pc # "idle"

\* download_audio, from its start to the end of the metadata probe
DownloadAudioProbe(r) ==
    /\ Arrives(r)
    /\ dirExists' = TRUE
    /\ \E fmt \in Formats :
         LET o  == get_yt_dlp_options(<<>>, fmt, cookies)
             r0 == [req[r] EXCEPT !.kind = "audio", !.format = fmt]
         IN  IF o.exc # NoExc
             THEN req' = [req EXCEPT ![r] =
                            [r0 EXCEPT !.pc = "done", !.exc = o.exc,
                                       !.resp = AudioError(o.exc)]]
             ELSE \E out \in ProbeOutcomes :
                    IF out.exc # NoExc
                    THEN req' = [req EXCEPT ![r] =
                                   [r0 EXCEPT !.pc = "done", !.calls = 1,
                                              !.exc = out.exc,
                                              !.resp = AudioError(out.exc)]]
                    ELSE \E u \in Uuids :
                           LET base == create_safe_filename(out.title, Dates[now], u)
                           IN  req' = [req EXCEPT ![r] =
                                         [r0 EXCEPT !.pc = "download", !.calls = 1,
                                                    !.title = out.title,
                                                    !.date = now,
                                                    !.unique_id = SubSeq(u, 1, 8),
                                                    !.base = base,
                                                    !.final = base \o <<".">> \o fmt]]
    /\ UNCHANGED <<getVars, cookies, now, files, pureVars>>

\* download_audio: the second options and the download pass
DownloadAudioFetch(r) ==
    /\ Quiet
    /\ req[r].pc = "download"
    /\ LET o == get_yt_dlp_options(req[r].base, req[r].format, cookies)
       IN  IF o.exc # NoExc
           THEN /\ req' = [req EXCEPT ![r].pc = "done", ![r].exc = o.exc,
                                      ![r].resp = AudioError(o.exc)]
                /\ files' = files
           ELSE \E out \in FetchOutcomes(r, o.outtmpl, o.audioformat, files) :
                  /\ files' = out.fs
                  /\ IF out.exc # NoExc
                     THEN req' = [req EXCEPT ![r].pc = "done", ![r].calls = 2,
                                             ![r].exc = out.exc,
                                             ![r].resp = AudioError(out.exc)]
                     ELSE req' = [req EXCEPT ![r].pc = "finish", ![r].calls = 2,
                                             ![r].title = out.title,
                                             ![r].wrote = out.wrote]
    /\ UNCHANGED <<getVars, cookies, now, dirExists, pureVars>>

\* download_audio, after the download pass returned
DownloadAudioFinish(r) ==
    /\ Quiet
    /\ req[r].pc = "finish"
    /\ files' = Normalize(files, req[r].final, req[r].format)
    /\ req' = [req EXCEPT ![r].pc = "done",
                 ![r].resp = [NoResp EXCEPT
                                !.status = 200,
                                !.title = req[r].title,
                                !.filename = req[r].final,
                                !.download_url = <<"/download/">> \o req[r].final]]
    /\ UNCHANGED <<getVars, cookies, now, dirExists, pureVars>>

\* get_video_info
GetVideoInfo(r) ==
    /\ Arrives(r)
    /\ LET o  == get_yt_dlp_options(<<>>, <<"mp3">>, cookies)
           r0 == [req[r] EXCEPT !.kind = "info", !.pc = "done"]
       IN  IF o.exc # NoExc
           THEN req' = [req EXCEPT ![r] =
                          [r0 EXCEPT !.exc = o.exc, !.resp = InfoError(o.exc)]]
           ELSE \E out \in ProbeOutcomes :
                  IF out.exc # NoExc
                  THEN req' = [req EXCEPT ![r] =
                                 [r0 EXCEPT !.calls = 1, !.exc = out.exc,
                                            !.resp = InfoError(out.exc)]]
                  ELSE req' = [req EXCEPT ![r] =
                                 [r0 EXCEPT !.calls = 1,
                                            !.resp = [NoResp EXCEPT
                                                        !.status = 200,
                                                        !.title = out.title]]]
    /\ UNCHANGED <<getVars, cookies, now, dirExists, files, pureVars>>

\* the names clients ask GET /download/{filename} for: the file names the
\* service handed out or wrote, and those with the extension once more
QueryNames ==
    LET finals == {req[r].final : r \in {x \in Reqs : req[x].final # <<>>}}
    IN  finals \cup {n \o <<".">> \o LastPart(n) : n \in finals} \cup DOMAIN files

GetFile ==
    /\ Quiet
    /\ \E n \in QueryNames :
         /\ query' = n
         /\ served' = get_file(n, files)
    /\ UNCHANGED <<cookies, now, dirExists, files, req, listing, health,
                   pureVars>>

ListDownloads ==
    /\ Quiet
    /\ \E order \in Orders(DOMAIN files) :
         listing' = list_downloads(dirExists, files, order)
    /\ UNCHANGED <<cookies, now, dirExists, files, req, served, health,
                   query, pureVars>>

HealthCheck ==
    /\ Quiet
    /\ health' = [status |-> "healthy", timestamp |-> Strftime(Dates[now]),
                  cookies_configured |-> ~Falsy(cookies)]
    /\ UNCHANGED <<cookies, now, dirExists, files, req, served, listing,
                   query, pureVars>>

Next ==
    \/ \E r \in Reqs : DownloadAudioProbe(r)
    \/ \E r \in Reqs : DownloadAudioFetch(r)
    \/ \E r \in Reqs : DownloadAudioFinish(r)
    \/ \E r \in Reqs : GetVideoInfo(r)
    \/ GetFile
    \/ ListDownloads
    \/ HealthCheck
    \/ Deliver

Spec == Init /\ [][Next]_vars

----------------------------------------------------------------------------
(* create_safe_filename called directly, twice, on one title *)

Titles == SeqsUpTo(TitleChars, MaxLen)

InitName ==
    /\ title \in Titles
    /\ now = 1
    /\ stamp = <<>>
    /\ uuid = <<>>
    /\ ident = <<>>
    /\ cookies = None
    /\ dirExists = FALSE
    /\ files = NoFiles
    /\ req = [r \in Reqs |-> NoReq]
    /\ served = NoServed
    /\ listing = NoListing
    /\ health = NoHealth
    /\ query = <<>>

serviceVars == <<cookies, dirExists, files, req, served, listing, health, query>>

CallCreate ==
    /\ Len(ident) < 2
    /\ \E u \in Uuids :
         /\ uuid' = Append(uuid, u)
         /\ stamp' = Append(stamp, now)
         /\ ident' = Append(ident, create_safe_filename(title, Dates[now], u))
    /\ UNCHANGED <<title, now, serviceVars>>

\* midnight passes
Tick ==
    /\ now < Len(Dates)
    /\ now' = now + 1
    /\ UNCHANGED <<title, stamp, uuid, ident, serviceVars>>

NextName == CallCreate \/ Tick

SpecName == InitName /\ [][NextName]_vars

----------------------------------------------------------------------------
(* get_file on any requested name and any directory *)

NameAtoms == {"a", ".", "mp3"}
\* names a request path can carry: not empty, and not "." or ".."
Names == SeqsUpTo(NameAtoms, MaxName) \ {<<>>, <<".">>, <<".", ".">>}

\* the names the storage directory holds files under
DirPool == { <<"a">>, <<"a", ".", "a">>,
             <<"a", ".", "mp3">>,
             <<"a", ".", "mp3", ".", "mp3">>,
             <<"a", ".", "mp3", ".", "mp3", ".", "mp3">>,
             <<"a", ".", "mp3", "a">>,
             <<"a", ".", "mp3", ".", "mp3", "a">>,
             <<"mp3", ".", "a">> }

\* each file holds its own bytes
Bytes(n) == <<"bytes", "of">> \o n

InitResolve ==
    /\ query \in Names
    /\ \E S \in SUBSET DirPool : files = [n \in S |-> Bytes(n)]
    /\ dirExists = TRUE
    /\ served = NoServed
    /\ cookies = None
    /\ now = 1
    /\ req = [r \in Reqs |-> NoReq]
    /\ listing = NoListing
    /\ health = NoHealth
    /\ title = <<>>
    /\ stamp = <<>>
    /\ uuid = <<>>
    /\ ident = <<>>

Resolve ==
    /\ served = NoServed
    /\ served' = get_file(query, files)
    /\ UNCHANGED <<cookies, now, dirExists, files, req, listing, health,
                   pureVars, query>>

NextResolve == Resolve

SpecResolve == InitResolve /\ [][NextResolve]_vars

----------------------------------------------------------------------------
(* Properties of create_safe_filename, under SpecName *)

\* T sanitized in one pass: a character outside letters, digits, underscore,
\* whitespace and hyphen is skipped; the first whitespace of a run (runs
\* reach across skipped characters) becomes a hyphen, the rest of the run
\* nothing
Kept == {"a", "1", "_", "-"}
White == {" ", "\t", "FS"}
RECURSIVE Sanitized(_, _)
Sanitized(t, inRun) ==
    IF t = <<>> THEN <<>>
    ELSE IF Head(t) \in White
         THEN (IF inRun THEN <<>> ELSE <<"-">>) \o Sanitized(Tail(t), TRUE)
         ELSE IF Head(t) \in Kept
              THEN <<Head(t)>> \o Sanitized(Tail(t), FALSE)
              ELSE Sanitized(Tail(t), inRun)

HasShape(f, S) ==
    /\ Len(f) = 8 + 1 + Len(S) + 1 + 8
    /\ \A k \in 1..8 : f[k] \in Digits
    /\ f[9] = "_"
    /\ \A k \in 1..Len(S) : f[9 + k] = S[k]
    /\ f[10 + Len(S)] = "_"
    /\ \A k \in 1..8 : f[10 + Len(S) + k] \in HexChars

\* C7: every value create_safe_filename(T) returns is 8 decimal digits, "_",
\* the sanitized title, "_", 8 hexadecimal characters; it holds no "/", no
\* "\" and no "."; for the empty title it is {date}__{suffix}
C7_SafeFilenameShape ==
    \A i \in 1..Len(ident) :
        /\ HasShape(ident[i], Sanitized(title, FALSE))
        /\ \A k \in 1..Len(ident[i]) : ident[i][k] \notin {"/", "\\", "."}
        /\ title = <<>> =>
             /\ Len(ident[i]) = 18
             /\ ident[i][9] = "_" /\ ident[i][10] = "_"

\* a title of a separator and a control character between two whitespace
\* characters came back as a single hyphen
C7_Witness ==
    /\ Len(title) = 3
    /\ title[1] = " " /\ title[2] \in {"/", "SOH"} /\ title[3] = "\t"
    /\ Len(ident) >= 1
    /\ Len(ident[1]) = 19
    /\ ident[1][10] = "-"

\* C8 as claimed: two calls of create_safe_filename(T) return two different
\* identities
C8_TwoCallsDiffer ==
    Len(ident) = 2 => ident[1] # ident[2]

\* C8 amended: two calls of create_safe_filename(T) return identities of the
\* same length that differ exactly when the calls fell on different dates or
\* the first 8 characters of the identifiers they drew differ
C8_DifferIffDateOrSuffixDiffers ==
    Len(ident) = 2 =>
        /\ Len(ident[1]) = Len(ident[2])
        /\ ident[1] # ident[2] <=>
             \/ Dates[stamp[1]] # Dates[stamp[2]]
             \/ SubSeq(uuid[1], 1, 8) # SubSeq(uuid[2], 1, 8)

\* two calls on one date drew different identifiers and returned one identity
C8_Witness ==
    /\ Len(ident) = 2
    /\ stamp[1] = stamp[2]
    /\ uuid[1] # uuid[2]
    /\ ident[1] = ident[2]

----------------------------------------------------------------------------
(* Properties of get_file, under SpecResolve *)

DoubleMp3 == <<".", "mp3", ".", "mp3">>

\* the three candidates as claimed; the final extension of a name is what
\* follows its last ".", and of a name without "." is the name
ClaimedCandidates(n) ==
    << n,
       n \o <<".">> \o LastPart(n),
       IF EndsWith(n, DoubleMp3) THEN SubSeq(n, 1, Len(n) - 2) ELSE n >>

\* C4: GET /download/{N} probes N, N with its final extension appended once
\* more, and N with a trailing ".mp3.mp3" collapsed to ".mp3", in this
\* order; it serves the first that exists and answers 404, listing the
\* probed paths, if and only if none exists
C4_ProbesThreeCandidates ==
    served.status # 0 =>
        LET c    == ClaimedCandidates(query)
            hits == {i \in 1..3 : c[i] \in DOMAIN files}
        IN  /\ served.status \in {200, 404}
            /\ served.status = 404 <=> hits = {}
            /\ served.status = 404 => served.tried = c
            /\ served.status = 200 =>
                 \E i \in hits : /\ \A j \in hits : i <= j
                                 /\ served.path = c[i]
                                 /\ served.content = files[c[i]]

C5_Case ==
    /\ served.status # 0
    /\ EndsWith(query, <<".", "mp3">>)
    /\ query \o <<".", "mp3">> \in DOMAIN files
    /\ query \notin DOMAIN files

\* C5 as claimed: for N ending in ".mp3", with N.mp3 stored and N not,
\* GET /download/{N} streams N.mp3 as audio/mpeg under the file name N
C5_ServesDoubleAsN ==
    C5_Case =>
        /\ served.status = 200
        /\ served.path = query \o <<".", "mp3">>
        /\ served.content = files[query \o <<".", "mp3">>]
        /\ served.media_type = "audio/mpeg"
        /\ served.filename = query

\* C5 amended: the same, for N that does not itself contain ".mp3.mp3"
C5_ServesDoubleAsSingle ==
    C5_Case /\ ~Contains(query, DoubleMp3) =>
        /\ served.status = 200
        /\ served.path = query \o <<".", "mp3">>
        /\ served.content = files[query \o <<".", "mp3">>]
        /\ served.media_type = "audio/mpeg"
        /\ served.filename = query

\* a.mp3 was asked for, only a.mp3.mp3 is stored, and it was served
C5_Witness ==
    /\ C5_Case
    /\ query = <<"a", ".", "mp3">>
    /\ served.status = 200
    /\ served.content = Bytes(<<"a", ".", "mp3", ".", "mp3">>)

----------------------------------------------------------------------------
(* Properties of the service, under Spec *)

Answered(r, kind) == req[r].pc = "done" /\ req[r].kind = kind

\* C1: with no credential configured, POST /download/audio answers 500
C1_Unconfigured500 ==
    \A r \in Reqs :
        Answered(r, "audio") /\ Falsy(cookies) => req[r].resp.status = 500

\* C2: with no credential configured, every POST /download/audio and every
\* GET /info fails, with the error verify_cookies raises, and no request
\* invokes the extractor at any point
C2_UnconfiguredFailsBeforeExtractor ==
    Falsy(cookies) =>
        /\ \A r \in Reqs : req[r].calls = 0
        /\ \A r \in Reqs :
             Answered(r, "audio") \/ Answered(r, "info") =>
                 /\ req[r].exc = HTTPException(500, CookiesMsg)
                 /\ req[r].resp.status >= 400

\* the credential is the empty string and a download request was answered
C2_Witness ==
    /\ cookies = ""
    /\ \E r \in Reqs : Answered(r, "audio") /\ req[r].resp.status >= 400

AgeGated(r) ==
    /\ Answered(r, "audio")
    /\ req[r].exc.type = "DownloadError"
    /\ Contains(req[r].exc.detail, AgePhrase)

\* C3: when the extractor fails, in the probe or in the download pass, with
\* a DownloadError whose message contains "Sign in to confirm your age",
\* POST /download/audio answers 400 with the fixed age-restriction message
\* and not the extractor's message
C3_AgeGateMessage ==
    \A r \in Reqs :
        AgeGated(r) =>
            /\ req[r].resp.status = 400
            /\ req[r].resp.detail = AgeMsg
            /\ req[r].resp.detail # req[r].exc.detail

\* the download pass, after a successful probe, hit the age gate
C3_Witness ==
    \E r \in Reqs : AgeGated(r) /\ req[r].calls = 2

\* the {filename} of a request path /download/{filename}
RouteName(url) == Tail(url)

Downloaded(r) ==
    /\ Answered(r, "audio")
    /\ req[r].resp.status = 200
    /\ req[r].format = <<"mp3">>
    /\ req[r].wrote \in {"single", "double"}

C9_ListingComplete ==
    listing.status # 0 =>
        /\ listing.status = 200
        /\ (~dirExists \/ DOMAIN files = {}) => listing.files = <<>>
        /\ Len(listing.files) = Cardinality(DOMAIN files)
        /\ \A n \in DOMAIN files :
             \E i \in 1..Len(listing.files) :
                 /\ listing.files[i].filename = n
                 /\ listing.files[i].size = Size(files[n])
                 /\ listing.files[i].download_url = <<"/download/">> \o n
                 /\ \A j \in 1..Len(listing.files) :
                      listing.files[j].filename = n => j = i

\* two files are stored and listed
C9_Witness ==
    /\ listing.status = 200
    /\ Len(listing.files) = 2
    /\ listing.files[1].filename # listing.files[2].filename

\* C10 as claimed: every file name present in the storage directory is
\* present, with the same content, in every later state
C10_AppendOnly ==
    [][\A n \in DOMAIN files : n \in DOMAIN files' /\ files'[n] = files[n]]_vars

\* the step is request r's rename of {final}.{format} to {final}
Renames(r, n) ==
    /\ req[r].pc = "finish" /\ req'[r].pc = "done"
    /\ n = req[r].final \o <<".">> \o req[r].format
    /\ req[r].final \notin DOMAIN files
    /\ req[r].final \in DOMAIN files'
    /\ files'[req[r].final] = files[n]

\* the step is request r's download pass, writing a name of its identity
Rewrites(r, n) ==
    /\ req[r].pc = "download" /\ req'[r].pc = "finish"
    /\ SubSeq(n, 1, Len(req[r].base)) = req[r].base
    /\ \E q \in Reqs \ {r} : req[q].base = req[r].base

\* C10 amended: only steps of POST /download/audio change the storage
\* directory, and they only add files, except that (1) the double-extension
\* rename removes the name {final}.{format}, whose content is then stored
\* under the new name {final}, and (2) a download pass that drew the
\* identity of another download rewrites the files of that identity
C10_AppendOnlyButRename ==
    [][/\ files' # files =>
            \E r \in Reqs : /\ req[r].pc \in {"download", "finish"}
                            /\ req'[r].pc # req[r].pc
       /\ \A n \in DOMAIN files :
            /\ n \notin DOMAIN files' => \E r \in Reqs : Renames(r, n)
            /\ (n \in DOMAIN files' /\ files'[n] # files[n]) =>
                   \E r \in Reqs : Rewrites(r, n)]_vars

\* a download has renamed its double-extension file
C10_Witness ==
    \E r \in Reqs :
        /\ Answered(r, "audio")
        /\ req[r].wrote = "double"
        /\ req[r].final \in DOMAIN files
        /\ req[r].final \o <<".">> \o req[r].format \notin DOMAIN files

====
